---- MODULE Spec2Model ----
(***************************************************************************)
(* Model of the language-server pieces of laravel-blade-snippets-vscode:   *)
(*   server/src/javascriptLibs.ts   loadLibrary (memoized library loader)  *)
(*   unnamed/part_001               getJavascriptMode, convertRange,       *)
(*                                  getLESSMode                            *)
(*   unnamed/part_000               peekFileDefinition, utils/prettier     *)
(*                                  format (re-indenter)                   *)
(* Text is modelled as sequences of one-character strings so that the      *)
(* string operations of the code (split, join, trim, regex tails, offset   *)
(* arithmetic) are computed, not assumed.                                  *)
(***************************************************************************)
EXTENDS Integers, Sequences, FiniteSets, TLC

VARIABLES
    \* ---- javascriptLibs.ts
    contents,       \* the module-level memo object: own keys -> string
    fs,             \* the filesystem: path -> "absent" | "dir" | "file"
    log,            \* console.log lines "Unable to load library ${name} at ${libPath}",
                    \* in order, each kept as its two interpolated values
    nCalls,         \* number of loadLibrary calls so far (history)
    nFsChanges,     \* number of filesystem changes so far (history)
    firstResult,    \* name -> what the first call for that name returned (history)
    libLast,        \* what the last loadLibrary call did (history)
    \* ---- format of the script mode and of the less mode
    fmtReq,         \* the format request to be served: document, range, options,
                    \* and what the formatter library returns when it is run
    fmtLast,        \* the format request served: its inputs, whether the formatter
                    \* ran, and the result
    \* ---- the script mode (getJavascriptMode)
    openDocs,           \* the host's open documents: uri -> Closed | [version, text]
    jsDocuments,        \* the mode's sub-document cache: uri -> [version, languageModel]
    currentTextDocument,\* the virtual sub-document the analyzer is shown, or Undefined
    scriptFileVersion,  \* the synthetic file's version counter
    tsAnswer,           \* what the TypeScript service answers to the handler's query
    nReq,               \* number of requests served so far (history)
    removedSince,       \* uris removed and not asked about since (history)
    reqLast,            \* the last request served and what it returned (history)
    shown,              \* what the host object served the analyzer for the synthetic
                        \* file at the queries so far: version string and text (history)
    \* ---- peekFileDefinition
    peekReq,        \* the request to be served: document, position, options
    peekLast        \* the request served and the list it returned

libVars == <<contents, fs, log, nCalls, nFsChanges, firstResult, libLast>>
fmtVars == <<fmtReq, fmtLast>>
modeVars == <<openDocs, jsDocuments, currentTextDocument, scriptFileVersion, tsAnswer,
              nReq, removedSince, reqLast, shown>>

peekVars == <<peekReq, peekLast>>

vars == <<libVars, fmtVars, modeVars, peekVars>>

(***************************************************************************)
(* Bounds of the model.                                                    *)
(***************************************************************************)
MaxCalls == 3
MaxFsChanges == 2
MaxOutLen == 2      \* longest enumerated output of the formatter library
MaxTabSize == 2     \* largest formattingOption.tabSize
MaxRequests == 2    \* requests served to the script mode
MaxVersion == 2     \* highest version a host document reaches
MaxEntries == 2     \* longest enumerated list of analyzer entries
MaxItems == 2       \* longest enumerated list of navigation items

(***************************************************************************)
(* Text: a string is a sequence of one-character strings.                  *)
(***************************************************************************)
Undefined == "<undefined>"
Null == "<null>"

Max(S) == CHOOSE x \in S : \A y \in S : y <= x
Min(S) == CHOOSE x \in S : \A y \in S : x <= y

\* the white space String.prototype.trim removes, as far as the model's
\* alphabet goes
IsWhiteSpace(c) == c \in {" ", "\t", "\n", "\r"}

trimEnd(s) ==
    LET keep == {i \in 1..Len(s) : ~IsWhiteSpace(s[i])}
    IN IF keep = {} THEN <<>> ELSE SubSeq(s, 1, Max(keep))

trim(s) ==
    LET keep == {i \in 1..Len(s) : ~IsWhiteSpace(s[i])}
    IN IF keep = {} THEN <<>> ELSE SubSeq(s, Min(keep), Max(keep))

\* s.split(sep) for a one-character separator
RECURSIVE split(_, _)
split(s, sep) ==
    LET at == {i \in 1..Len(s) : s[i] = sep}
    IN IF at = {} THEN <<s>>
       ELSE <<SubSeq(s, 1, Min(at) - 1)>> \o split(SubSeq(s, Min(at) + 1, Len(s)), sep)

\* parts.join(sep)
RECURSIVE joinWith(_, _)
joinWith(parts, sep) ==
    IF parts = <<>> THEN <<>>
    ELSE IF Len(parts) = 1 THEN parts[1]
    ELSE parts[1] \o sep \o joinWith(Tail(parts), sep)

\* s.replaceAll(c, "")
removeAll(s, c) == SelectSeq(s, LAMBDA x : x # c)

\* repeat(s, n) of utils/strings
RECURSIVE repeat(_, _)
repeat(s, n) == IF n <= 0 THEN <<>> ELSE s \o repeat(s, n - 1)

\* all strings over an alphabet up to a length
RECURSIVE StringsUpTo(_, _)
StringsUpTo(alphabet, n) ==
    IF n = 0 THEN {<<>>}
    ELSE LET shorter == StringsUpTo(alphabet, n - 1)
         IN shorter \cup {Append(t, c) : t \in shorter, c \in alphabet}

(***************************************************************************)
(* TextDocument of vscode-languageserver-types: line index, positionAt,    *)
(* offsetAt, getText(range).                                               *)
(***************************************************************************)
Position(l, c) == [line |-> l, character |-> c]
Range(a, b) == [start |-> a, end |-> b]

\* offsets (0-based) at which a line starts: offset 0 of a non-empty text and
\* the offset after each line break, "\r\n" being one break
getLineOffsets(text) ==
    LET n == Len(text)
        AfterBreak(i) ==    \* i is a 0-based offset in 1..n
            \/ text[i] = "\n"
            \/ text[i] = "\r" /\ ~(i + 1 <= n /\ text[i + 1] = "\n")
        starts == (IF n > 0 THEN {0} ELSE {}) \cup {i \in 1..n : AfterBreak(i)}
        Nth[k \in 1..Cardinality(starts)] ==
            CHOOSE o \in starts : Cardinality({q \in starts : q < o}) = k - 1
    IN Nth

positionAt(text, offset) ==
    LET off == Max({Min({offset, Len(text)}), 0})
        lineOffsets == getLineOffsets(text)
    IN IF Len(lineOffsets) = 0 THEN Position(0, off)
       ELSE LET low == Cardinality({k \in 1..Len(lineOffsets) : lineOffsets[k] <= off})
            IN Position(low - 1, off - lineOffsets[low])

offsetAt(text, position) ==
    LET lineOffsets == getLineOffsets(text)
    IN IF position.line >= Len(lineOffsets) THEN Len(text)
       ELSE IF position.line < 0 THEN 0
       ELSE LET lineOffset == lineOffsets[position.line + 1]
                nextLineOffset == IF position.line + 1 < Len(lineOffsets)
                                  THEN lineOffsets[position.line + 2]
                                  ELSE Len(text)
            IN Max({Min({lineOffset + position.character, nextLineOffset}), lineOffset})

\* document.getText(range)
getText(text, range) ==
    LET a == offsetAt(text, range.start)
        b == offsetAt(text, range.end)
    IN SubSeq(text, Min({a, b}) + 1, Max({a, b}))

(***************************************************************************)
(* javascriptLibs.ts                                                       *)
(***************************************************************************)

\* dirname(__dirname): where the server is installed
serverFolder == "/ext/server"

\* path.join for the arguments the loader passes: segments are joined by one
\* "/"; a second argument that is already rooted contributes no second "/".
join(a, b) == IF b \in {"/opt/types/extra.d.ts"} THEN a \o b ELSE a \o "/" \o b

TYPESCRIPT_LIB_SOURCE == join(serverFolder, "node_modules/typescript/lib")
JQUERY_PATH == join(serverFolder, "lib/jquery.d.ts")

\* library names asked for: the alias, a default lib, a rooted path, and two
\* names that are also keys of Object.prototype
LibNames == {"jquery", "lib.es6.d.ts", "/opt/types/extra.d.ts", "toString", "__proto__"}

Paths == {JQUERY_PATH} \cup LibNames \cup {join(TYPESCRIPT_LIB_SOURCE, n) : n \in LibNames}

FileStates == {"absent", "dir", "file"}

\* what readFileSync(p).toString() gives for a regular file
FileText(p) == "text of " \o p

existsSync(p) == fs[p] # "absent"

\* readFileSync throws for a missing path (ENOENT) and for a directory (EISDIR)
readThrows(p) == fs[p] # "file"

\* `contents` is an object literal, so a key that is not an own property is
\* looked up on Object.prototype: "__proto__" is the prototype object itself,
\* the other prototype keys are functions.
ObjectPrototypeKeys == {"toString", "constructor", "valueOf", "hasOwnProperty"}

typeofContents(name) ==
    IF name \in DOMAIN contents THEN "string"
    ELSE IF name = "__proto__" THEN "object"
    ELSE IF name \in ObjectPrototypeKeys THEN "function"
    ELSE "undefined"

\* contents[name] = content. Assigning to "__proto__" runs the prototype
\* setter, which ignores a primitive value and creates no own property.
assignContents(name, content) ==
    IF name = "__proto__" THEN contents
    ELSE [k \in (DOMAIN contents) \cup {name} |-> IF k = name THEN content ELSE contents[k]]

\* lines 19-28: the path a lookup reads from
libPathNoAliasFirst(name) ==
    IF existsSync(name) THEN name
    ELSE IF name = "jquery" THEN JQUERY_PATH
    ELSE join(TYPESCRIPT_LIB_SOURCE, name)

libPath(name) ==
    IF name = "jquery" THEN JQUERY_PATH
    ELSE IF existsSync(name) THEN name
    ELSE join(TYPESCRIPT_LIB_SOURCE, name)

\* the filesystem calls of one lookup, in order
libFsOps(name) ==
    (IF name = "jquery" THEN <<>> ELSE << <<"existsSync", name>> >>)
        \o << <<"readFileSync", libPath(name)>> >>

loadLibrary(name) ==
    /\ nCalls < MaxCalls
    /\ LET hit == typeofContents(name) = "string"
           p == libPath(name)
           failed == readThrows(p)
           content == IF hit THEN contents[name]
                      ELSE IF failed THEN "" ELSE FileText(p)
       IN /\ contents' = IF hit THEN contents ELSE assignContents(name, content)
          /\ log' = IF ~hit /\ failed
                    THEN Append(log, [name |-> name, libPath |-> p])
                    ELSE log
          /\ firstResult' = IF name \in DOMAIN firstResult THEN firstResult
                            ELSE [k \in (DOMAIN firstResult) \cup {name} |->
                                     IF k = name THEN content ELSE firstResult[k]]
          /\ libLast' = [name |-> name,
                         first |-> name \notin DOMAIN firstResult,
                         result |-> content,
                         fsOps |-> IF hit THEN <<>> ELSE libFsOps(name),
                         logged |-> ~hit /\ failed]
    /\ nCalls' = nCalls + 1
    /\ UNCHANGED <<fs, nFsChanges>>
    /\ UNCHANGED <<fmtVars, modeVars, peekVars>>

\* the environment creates, removes or replaces a filesystem entry
FsChange(p, s) ==
    /\ nFsChanges < MaxFsChanges
    /\ fs[p] # s
    /\ fs' = [fs EXCEPT ![p] = s]
    /\ nFsChanges' = nFsChanges + 1
    /\ UNCHANGED <<contents, log, nCalls, firstResult, libLast>>
    /\ UNCHANGED <<fmtVars, modeVars, peekVars>>

(***************************************************************************)
(* utils/prettier: format(text, parser, formattingOption)                  *)
(***************************************************************************)
\* /(\n\r?[ \t]*)$/.exec(text), group 0, or "" when there is no match: the
\* last "\n" of the text and what follows it, when that is an optional "\r"
\* and then blanks and tabs only
tagIndentOf(text) ==
    LET nl == {i \in 1..Len(text) : text[i] = "\n"}
    IN IF nl = {} THEN <<>>
       ELSE LET i == Max(nl)
                rest == SubSeq(text, i + 1, Len(text))
                body == IF rest # <<>> /\ rest[1] = "\r" THEN Tail(rest) ELSE rest
            IN IF \A k \in 1..Len(body) : body[k] \in {" ", "\t"}
               THEN SubSeq(text, i, Len(text))
               ELSE <<>>

\* lines 82-83 alone: prefixIndent, without the level line 84 appends
intdentOfNoExtraLevel(text, formattingOption) ==
    removeAll(tagIndentOf(text), "\n")

\* line 84: the indent put before every line
intdentOf(text, formattingOption) ==
    removeAll(tagIndentOf(text), "\n")
        \o (IF formattingOption.insertSpaces
            THEN repeat(<<" ">>, formattingOption.tabSize)
            ELSE <<"\t">>)

\* lines 79-94, `formatted` being what the prettier library returned for
\* (text, parser, tabWidth, useTabs)
format(text, formatted, formattingOption) ==
    LET intdent == intdentOf(text, formattingOption)
        lines == split(formatted, "\n")
        newText == joinWith([i \in 1..Len(lines) |-> intdent \o lines[i]], <<"\n">>)
    IN <<"\n">> \o trimEnd(newText) \o tagIndentOf(text)

(***************************************************************************)
(* format of the script mode (parser "babel") and of the less mode         *)
(* (parser "less")                                                         *)
(***************************************************************************)
NoFormat == [mode |-> Undefined]

modeFormatKeepsBlank(mode, parser, document, range, formattingOption, formatted) ==
    LET text == getText(document, range)
    IN fmtLast' = [mode |-> mode, document |-> document, range |-> range,
                   formattingOption |-> formattingOption, text |-> text,
                   parser |-> parser, formatterRan |-> TRUE, formatted |-> formatted,
                   result |-> << [range |-> range,
                                  newText |-> format(text, formatted, formattingOption)] >>]

modeFormat(mode, parser, document, range, formattingOption, formatted) ==
    LET text == getText(document, range)
        ran == trim(text) # <<>>
    IN fmtLast' = [mode |-> mode, document |-> document, range |-> range,
                   formattingOption |-> formattingOption, text |-> text,
                   parser |-> IF ran THEN parser ELSE Undefined,
                   formatterRan |-> ran,
                   formatted |-> IF ran THEN formatted ELSE Undefined,
                   result |-> IF ran
                              THEN << [range |-> range,
                                       newText |-> format(text, formatted, formattingOption)] >>
                              ELSE Null]

\* getJavascriptMode(...).format
jsFormat(document, range, formattingOption, formatted) ==
    /\ fmtLast = NoFormat
    /\ modeFormat("javascript", "babel", document, range, formattingOption, formatted)
    /\ UNCHANGED <<libVars, modeVars, fmtReq, peekVars>>

\* getLESSMode(...).format
lessFormat(document, range, formattingOption, formatted) ==
    /\ fmtLast = NoFormat
    /\ modeFormat("less", "less", document, range, formattingOption, formatted)
    /\ UNCHANGED <<libVars, modeVars, fmtReq, peekVars>>

\* documents format is asked about; "S" and "E" stand for an opening and a
\* closing tag
FmtDocuments ==
    { <<" ", " ", "S", "\n", " ", " ", "a", "\n", " ", " ", "E">>,
      <<" ", " ", " ", " ", "S", "\n", " ", " ", " ", " ", "a", "\n",
        " ", " ", " ", " ", "E">>,
      <<"\t", "S", "\r", "\n", "\t", "a", "\n", "\r", "\t", "E">>,
      <<"S", "a", " ", "a", "E">>,
      <<"S", " ", "\n", "\t", "E">>,
      <<>> }

\* every range of a document, as positions
RangesOf(document) ==
    UNION {{Range(positionAt(document, a), positionAt(document, b)) :
               b \in a..Len(document)} : a \in 0..Len(document)}

FormattingOptions == [tabSize : 1..MaxTabSize, insertSpaces : BOOLEAN]

\* what the prettier library may return
FormatterOutputs ==
    StringsUpTo({"a", " ", "\n"}, MaxOutLen)
        \cup { <<"a", "\n", "\n", " ", "a", "\n">>, <<"a", "\n", "a", " ", "\n", " ">> }

(***************************************************************************)
(* Host documents and the virtual script sub-document (embeddedSupport,    *)
(* languageModelCache)                                                     *)
(***************************************************************************)
Closed == [closed |-> TRUE]

Uris == {"file:///a.blade.php", "file:///b.blade.php"}

\* host texts; "S" and "E" stand for <script> and </script>
HostTexts ==
    { <<"S", "a", "\n", "b", "E">>,
      <<"p", "\r", "\n", "S", "a", "E">> }

TextDocument(uri, languageId, version, text) ==
    [uri |-> uri, languageId |-> languageId, version |-> version, text |-> text]

\* the host document open under a uri
HostDocument(u) ==
    IF openDocs[u] = Closed THEN TextDocument(u, "blade", 0, <<>>)
    ELSE TextDocument(u, "blade", openDocs[u].version, openDocs[u].text)

\* the documents the host asks about: the open ones
OpenDocuments == {HostDocument(u) : u \in {v \in Uris : openDocs[v] # Closed}}

\* getEmbeddedDocument("javascript"): same uri, version and length; the text
\* of script regions is kept, every other character becomes a blank, line
\* breaks staying where they are
getEmbeddedDocument(document) ==
    LET t == document.text
        InScript(i) ==
            /\ t[i] \notin {"S", "E"}
            /\ \E o \in 1..(i - 1) :
                  /\ t[o] = "S"
                  /\ \A k \in (o + 1)..(i - 1) : t[k] # "E"
        masked == [i \in 1..Len(t) |->
                     IF InScript(i) \/ t[i] \in {"\n", "\r"} THEN t[i] ELSE " "]
    IN TextDocument(document.uri, "javascript", document.version, masked)

\* LanguageModelCache.get: the stored model when its version is the
\* document's, else a fresh parse, which is stored
cacheHit(document) ==
    /\ document.uri \in DOMAIN jsDocuments
    /\ jsDocuments[document.uri].version = document.version

cacheGet(document) ==
    IF cacheHit(document) THEN jsDocuments[document.uri].languageModel
    ELSE getEmbeddedDocument(document)

cacheAfterGet(document) ==
    IF cacheHit(document) THEN jsDocuments
    ELSE [u \in (DOMAIN jsDocuments) \cup {document.uri} |->
            IF u = document.uri
            THEN [version |-> document.version,
                  languageModel |-> getEmbeddedDocument(document)]
            ELSE jsDocuments[u]]

\* LanguageModelCache.onDocumentRemoved
cacheAfterRemove(uri) == [u \in (DOMAIN jsDocuments) \ {uri} |-> jsDocuments[u]]

(***************************************************************************)
(* getJavascriptMode                                                       *)
(***************************************************************************)
FILE_NAME == "vscode://javascript/1"

\* `let currentTextDocument` before the first request
NoDocument == [uri |-> Undefined]

\* an answer of the TypeScript service: undefined, or a list
NoAnswer == [defined |-> FALSE]
Answer(list) == [defined |-> TRUE, list |-> list]

\* a handler's result: null, or a value
NullResult == [isNull |-> TRUE]
Result(v) == [isNull |-> FALSE, value |-> v]

Digit == <<"0", "1", "2", "3", "4", "5", "6", "7", "8", "9">>

\* String(n) for n >= 0
RECURSIVE String(_)
String(n) == IF n < 10 THEN Digit[n + 1] ELSE String(n \div 10) \o Digit[(n % 10) + 1]

\* lines 49-54: is the held document replaced by this request?
isStale(doc) ==
    \/ currentTextDocument = NoDocument
    \/ doc.uri # currentTextDocument.uri
    \/ doc.version # currentTextDocument.version

updateAlways(doc) ==
    /\ currentTextDocument' = cacheGet(doc)
    /\ jsDocuments' = cacheAfterGet(doc)
    /\ scriptFileVersion' = scriptFileVersion + 1

updateCurrentTextDocument(doc) ==
    IF isStale(doc)
    THEN /\ currentTextDocument' = cacheGet(doc)
         /\ jsDocuments' = cacheAfterGet(doc)
         /\ scriptFileVersion' = scriptFileVersion + 1
    ELSE UNCHANGED <<currentTextDocument, jsDocuments, scriptFileVersion>>

\* host.getScriptVersion
getScriptVersion(fileName, version) ==
    IF fileName = FILE_NAME THEN String(version) ELSE "1"

\* host.getScriptSnapshot for the "vscode:" names (lines 65-79): the held
\* document's text for the synthetic file, "" for any other; a read of
\* currentTextDocument while it is undefined throws
getScriptSnapshot(fileName, held) ==
    IF fileName = FILE_NAME THEN held.text ELSE <<>>

\* lines 292-300; a span is a record whose `start` and `length` fields may
\* be missing
lengthOrZero(span) == IF "length" \in DOMAIN span THEN span.length ELSE 0

convertRangeLengthAsEnd(document, span) ==
    IF "start" \notin DOMAIN span
    THEN Range(positionAt(document.text, 0), positionAt(document.text, 0))
    ELSE Range(positionAt(document.text, span.start),
               positionAt(document.text, lengthOrZero(span)))

convertRange(document, span) ==
    IF "start" \notin DOMAIN span
    THEN Range(positionAt(document.text, 0), positionAt(document.text, 0))
    ELSE Range(positionAt(document.text, span.start),
               positionAt(document.text, span.start + lengthOrZero(span)))

\* lines 335-360; the numbers are SymbolKind's
convertSymbolKind(kind) ==
    CASE kind \in {"var", "local var", "const"} -> 13
      [] kind \in {"function", "local function"} -> 12
      [] kind = "enum" -> 10
      [] kind = "module" -> 2
      [] kind = "class" -> 5
      [] kind = "interface" -> 11
      [] kind = "method" -> 6
      [] kind \in {"property", "getter", "setter"} -> 7
      [] OTHER -> 13

\* one request served: what is recorded of it
Served(op, document, parsed, result) ==
    /\ nReq' = nReq + 1
    /\ removedSince' = removedSince \ {document.uri}
    /\ shown' = shown \cup {[scriptVersion |-> getScriptVersion(FILE_NAME, scriptFileVersion'),
                           snapshot |-> getScriptSnapshot(FILE_NAME, currentTextDocument')]}
    /\ reqLast' = [op |-> op, uri |-> document.uri, version |-> document.version,
                   text |-> document.text,
                   held |-> currentTextDocument',
                   stale |-> isStale(document),
                   parsed |-> parsed,
                   afterRemoval |-> document.uri \in removedSince,
                   scriptVersion |-> getScriptVersion(FILE_NAME, scriptFileVersion'),
                   snapshot |-> getScriptSnapshot(FILE_NAME, currentTextDocument'),
                   result |-> result]

\* what every analyzer-backed handler starts with
Begin(op, document, result) ==
    /\ nReq < MaxRequests
    /\ document \in OpenDocuments
    /\ updateCurrentTextDocument(document)
    /\ Served(op, document, jsDocuments' # jsDocuments, result)
    /\ UNCHANGED <<openDocs, tsAnswer, libVars, fmtVars, peekVars>>

MapSeq(s, F(_)) == [i \in 1..Len(s) |-> F(s[i])]

\* lines 94-106; `diagnostics` are the syntactic then the semantic ones
doValidation(document, diagnostics) ==
    LET D(diag) == [range |-> convertRange(currentTextDocument', diag.textSpan),
                    severity |-> "Error", source |-> "js"]
    IN Begin("doValidation", document,
             Result(MapSeq(IF diagnostics.defined THEN diagnostics.list ELSE <<>>, D)))

\* lines 107-134
doComplete(document, position, completions) ==
    Begin("doComplete", document,
          IF ~completions.defined THEN Result([isIncomplete |-> FALSE, items |-> <<>>])
          ELSE Result([isIncomplete |-> FALSE,
                       items |-> [i \in 1..Len(completions.list) |->
                                    [uri |-> document.uri, position |-> position,
                                     label |-> completions.list[i].fileName,
                                     offset |-> offsetAt(currentTextDocument'.text,
                                                         position)]]]))

\* lines 135-144
doResolve(document, item, details) ==
    Begin("doResolve", document,
          IF ~details.defined THEN Result(item)
          ELSE Result([label |-> item.label, detail |-> "details"]))

\* lines 145-156
doHover(document, position, info) ==
    Begin("doHover", document,
          IF ~info.defined \/ info.list = <<>> THEN NullResult
          ELSE Result([range |-> convertRange(currentTextDocument', info.list[1].textSpan),
                       contents |-> "info"]))

\* lines 157-192
doSignatureHelp(document, position, signHelp) ==
    Begin("doSignatureHelp", document,
          IF ~signHelp.defined THEN NullResult
          ELSE Result([activeSignature |-> 0, activeParameter |-> 0,
                       signatures |-> [i \in 1..Len(signHelp.list) |-> [label |-> "sig"]]]))

\* lines 193-205
findDocumentHighlight(document, position, occurrences) ==
    LET H(entry) == [range |-> convertRange(currentTextDocument', entry.textSpan),
                     kind |-> "Text"]
    IN Begin("findDocumentHighlight", document,
             Result(IF occurrences.defined THEN MapSeq(occurrences.list, H) ELSE <<>>))

\* lines 212-234: collectSymbols. acc holds `existing` and `result`; each
\* result entry is the symbol pushed and, beside it, the place in the tree of
\* the item it was pushed for.
RECURSIVE collectSymbols(_, _, _, _, _)
collectSymbols(item, path, containerLabel, document, acc) ==
    LET sig == item.text \o item.kind \o String(item.spans[1].start)
        push == item.kind # "script" /\ sig \notin acc.existing
        symbol == [name |-> item.text,
                   kind |-> convertSymbolKind(item.kind),
                   location |-> [uri |-> document.uri,
                                 range |-> convertRange(currentTextDocument', item.spans[1])],
                   containerName |-> containerLabel]
        acc1 == IF push
                THEN [existing |-> acc.existing \cup {sig},
                      result |-> Append(acc.result, [symbol |-> symbol, from |-> path])]
                ELSE acc
        label1 == IF push THEN item.text ELSE containerLabel
        RECURSIVE children(_, _)
        children(k, a) ==
            IF k > Len(item.childItems) THEN a
            ELSE children(k + 1,
                          collectSymbols(item.childItems[k], Append(path, k), label1,
                                         document, a))
    IN children(1, acc1)

RECURSIVE collectAll(_, _, _, _)
collectAll(items, k, document, acc) ==
    IF k > Len(items) THEN acc
    ELSE collectAll(items, k + 1, document,
                    collectSymbols(items[k], <<k>>, Undefined, document, acc))

\* lines 206-240
findDocumentSymbols(document, items) ==
    LET pushed == IF ~items.defined THEN <<>>
                  ELSE collectAll(items.list, 1, document,
                                  [existing |-> {}, result |-> <<>>]).result
    IN Begin("findDocumentSymbols", document,
             [isNull |-> FALSE,
              value |-> [i \in 1..Len(pushed) |-> pushed[i].symbol],
              from |-> [i \in 1..Len(pushed) |-> pushed[i].from]])

\* the results that resolve into the synthetic file, as locations of the
\* request's document
sameFileLocationsUnfiltered(document, entries) ==
    LET L(d) == [uri |-> document.uri,
                 range |-> convertRange(currentTextDocument', d.textSpan)]
    IN MapSeq(entries, L)

sameFileLocations(document, entries) ==
    LET L(d) == [uri |-> document.uri,
                 range |-> convertRange(currentTextDocument', d.textSpan)]
    IN MapSeq(SelectSeq(entries, LAMBDA d : d.fileName = FILE_NAME), L)

\* lines 241-255
findDefinition(document, position, definition) ==
    Begin("findDefinition", document,
          IF ~definition.defined THEN NullResult
          ELSE Result(sameFileLocations(document, definition.list)))

\* lines 256-270
findReferences(document, position, references) ==
    Begin("findReferences", document,
          IF ~references.defined THEN Result(<<>>)
          ELSE Result(sameFileLocations(document, references.list)))

\* lines 282-284, as the host delivers it: when the document is closed
onDocumentRemoved(document) ==
    /\ document \in OpenDocuments
    /\ jsDocuments' = cacheAfterRemove(document.uri)
    /\ openDocs' = [openDocs EXCEPT ![document.uri] = Closed]
    /\ removedSince' = removedSince \cup {document.uri}
    /\ UNCHANGED <<currentTextDocument, scriptFileVersion, tsAnswer, nReq, reqLast, shown,
                   libVars, fmtVars, peekVars>>

\* the host opens a document: a new document starts at version 1
didOpen(uri, text) ==
    /\ openDocs[uri] = Closed
    /\ openDocs' = [openDocs EXCEPT ![uri] = [version |-> 1, text |-> text]]
    /\ UNCHANGED <<jsDocuments, currentTextDocument, scriptFileVersion, tsAnswer, nReq,
                   removedSince, reqLast, shown, libVars, fmtVars, peekVars>>

\* the host applies an edit: the version goes up
didChange(uri, text) ==
    /\ openDocs[uri] # Closed
    /\ openDocs[uri].version < MaxVersion
    /\ openDocs[uri].text # text
    /\ openDocs' = [openDocs EXCEPT ![uri] = [version |-> @.version + 1, text |-> text]]
    /\ UNCHANGED <<jsDocuments, currentTextDocument, scriptFileVersion, tsAnswer, nReq,
                   removedSince, reqLast, shown, libVars, fmtVars, peekVars>>

\* the cache's idle sweep drops an entry that was not used for a minute
cleanup(uri) ==
    /\ uri \in DOMAIN jsDocuments
    /\ jsDocuments' = cacheAfterRemove(uri)
    /\ UNCHANGED <<openDocs, currentTextDocument, scriptFileVersion, tsAnswer, nReq,
                   removedSince, reqLast, shown, libVars, fmtVars, peekVars>>

(***************************************************************************)
(* peekFileDefinition: jump from an @include / @extends directive to the   *)
(* template it names                                                       *)
(***************************************************************************)
NoPeek == [document |-> Undefined]

\* workspaceFolders: WorkspaceFolder[] | undefined
NoFolders == [defined |-> FALSE]
Folders(list) == [defined |-> TRUE, list |-> list]

\* lines 17-25: the uri of the first folder whose uri the document's uri
\* starts with (document.uri.indexOf(a.uri) === 0), or null
getWorkspacePath(workspaceFolders, document) ==
    IF workspaceFolders.defined /\ Len(workspaceFolders.list) > 0
    THEN LET uri == document.uri
             StartsWith(a) == Len(a) <= Len(uri) /\ SubSeq(uri, 1, Len(a)) = a
             currentWorkspace == SelectSeq(workspaceFolders.list, StartsWith)
         IN IF currentWorkspace # <<>> THEN Result(currentWorkspace[1]) ELSE NullResult
    ELSE NullResult

\* lines 27-29
joinUri(args) == joinWith(args, <<"/">>)

\* the /i flag, for the letters of the two directive names
toLowerCase(c) ==
    CASE c = "I" -> "i" [] c = "N" -> "n" [] c = "C" -> "c" [] c = "L" -> "l"
      [] c = "U" -> "u" [] c = "D" -> "d" [] c = "E" -> "e" [] c = "X" -> "x"
      [] c = "T" -> "t" [] c = "S" -> "s"
      [] OTHER -> c

IsQuote(c) == c \in {"'", "\""}

\* what "." of a regular expression does not match
IsLineTerminator(c) == c \in {"\n", "\r"}

DirectiveNames == { <<"i", "n", "c", "l", "u", "d", "e">>,
                    <<"e", "x", "t", "e", "n", "d", "s">> }

\* line 41, /@(?:include|extends)\((.+?('|"))/gi tried at the 1-based index
\* i: the indices at which the match can end. ".+?" takes at least one
\* character, a quote included, and no line terminator.
regexEnds(s, i) ==
    IF /\ i + 9 <= Len(s)
       /\ s[i] = "@"
       /\ [k \in 1..7 |-> toLowerCase(s[i + k])] \in DirectiveNames
       /\ s[i + 8] = "("
    THEN {j \in (i + 10)..Len(s) :
             /\ IsQuote(s[j])
             /\ \A k \in (i + 9)..(j - 1) : ~IsLineTerminator(s[k])}
    ELSE {}

\* lines 42-52, the exec loop from the 1-based index `from` on: each match
\* is the leftmost one, ".+?" stops at the first quote it can, and the next
\* search starts where the match ended
RECURSIVE execAll(_, _)
execAll(s, from) ==
    LET starts == {i \in from..Len(s) : regexEnds(s, i) # {}}
    IN IF starts = {} THEN <<>>
       ELSE LET i == Min(starts)
                j == Min(regexEnds(s, i))
            IN << [start |-> i - 1,
                   end |-> j,
                   text |-> SubSeq(s, i, j),
                   template |-> SelectSeq(SubSeq(s, i + 9, j), LAMBDA c : ~IsQuote(c))] >>
               \o execAll(s, j + 1)

BladeSuffix == <<".", "b", "l", "a", "d", "e", ".", "p", "h", "p">>

ZeroRange == Range(Position(0, 0), Position(0, 0))

\* lines 32-72
peekFileDefinition(document, position, options) ==
    LET startPos == Position(position.line, 0)
        endPos == Position(position.line + 1, 0)
        lineText == getText(document.text, Range(startPos, endPos))
        includeParts == IF lineText # <<>> /\ trim(lineText) # <<>>
                        THEN execAll(lineText, 1) ELSE <<>>
        workspacePath == getWorkspacePath(options.workspaceFolders, document)
        viewsBaseUri == joinUri(<< IF workspacePath = NullResult THEN <<>>
                                   ELSE workspacePath.value,
                                   options.settings.blade.views.path >>)
        peekPart == SelectSeq(includeParts,
                       LAMBDA part : /\ part.start < position.character
                                     /\ part.end > position.character)
        defs == IF peekPart # <<>>
                THEN << [uri |-> joinUri(<<viewsBaseUri>>
                                          \o split(peekPart[1].template, "."))
                                 \o BladeSuffix,
                         range |-> ZeroRange] >>
                ELSE <<>>
    IN /\ peekLast = NoPeek
       /\ peekLast' = [document |-> document, position |-> position,
                       options |-> options, lineText |-> lineText,
                       includeParts |-> includeParts, result |-> defs]
       /\ UNCHANGED <<peekReq, libVars, fmtVars, modeVars>>

(***************************************************************************)
(* Initial states and specifications                                       *)
(***************************************************************************)
\* a fresh process on an installation that ships the jquery definitions and
\* the default library
LibIdle ==
    /\ contents = <<>>
    /\ fs = [p \in Paths |->
               IF p \in {JQUERY_PATH, join(TYPESCRIPT_LIB_SOURCE, "lib.es6.d.ts")}
               THEN "file" ELSE "absent"]
    /\ log = <<>>
    /\ nCalls = 0
    /\ nFsChanges = 0
    /\ firstResult = <<>>
    /\ libLast = [name |-> Undefined, first |-> FALSE, result |-> "", fsOps |-> <<>>,
                  logged |-> FALSE]

FmtIdle ==
    /\ fmtReq = NoFormat
    /\ fmtLast = NoFormat

PeekIdle ==
    /\ peekReq = NoPeek
    /\ peekLast = NoPeek

NoRequest == [op |-> Undefined]

\* the mode as getJavascriptMode returns it
ModeFresh ==
    /\ jsDocuments = <<>>
    /\ currentTextDocument = NoDocument
    /\ scriptFileVersion = 0
    /\ nReq = 0
    /\ removedSince = {}
    /\ reqLast = NoRequest
    /\ shown = {}

ModeIdle ==
    /\ ModeFresh
    /\ openDocs = [u \in Uris |-> Closed]
    /\ tsAnswer = NoAnswer

\* ---- the library loader
InitLib == LibIdle /\ FmtIdle /\ ModeIdle /\ PeekIdle

NextLib ==
    \/ \E name \in LibNames : loadLibrary(name)
    \/ \E p \in Paths, s \in FileStates : FsChange(p, s)

SpecLib == InitLib /\ [][NextLib]_vars

\* ---- format of the two modes
FormatRequests ==
    UNION {[document : {d}, range : RangesOf(d), formattingOption : FormattingOptions,
            formatted : FormatterOutputs] : d \in FmtDocuments}

InitFmt ==
    /\ LibIdle /\ ModeIdle /\ PeekIdle
    /\ fmtReq \in FormatRequests
    /\ fmtLast = NoFormat

NextFmt ==
    \/ jsFormat(fmtReq.document, fmtReq.range, fmtReq.formattingOption, fmtReq.formatted)
    \/ lessFormat(fmtReq.document, fmtReq.range, fmtReq.formattingOption, fmtReq.formatted)

SpecFmt == InitFmt /\ [][NextFmt]_vars

\* ---- the script mode under requests, edits and removals; the analyzer has
\* nothing to report
InitMode == LibIdle /\ FmtIdle /\ ModeIdle /\ PeekIdle

Origin == Position(0, 0)

NextMode ==
    \/ \E u \in Uris, t \in HostTexts : didOpen(u, t) \/ didChange(u, t)
    \/ \E u \in Uris : cleanup(u)
    \/ \E u \in Uris :
         \/ onDocumentRemoved(HostDocument(u))
         \/ doValidation(HostDocument(u), tsAnswer)
         \/ doComplete(HostDocument(u), Origin, tsAnswer)
         \/ doResolve(HostDocument(u), [label |-> "a"], tsAnswer)
         \/ doHover(HostDocument(u), Origin, tsAnswer)
         \/ doSignatureHelp(HostDocument(u), Origin, tsAnswer)
         \/ findDocumentHighlight(HostDocument(u), Origin, tsAnswer)
         \/ findDocumentSymbols(HostDocument(u), tsAnswer)
         \/ findDefinition(HostDocument(u), Origin, tsAnswer)
         \/ findReferences(HostDocument(u), Origin, tsAnswer)

SpecMode == InitMode /\ [][NextMode]_vars

\* ---- the script mode's handlers that return ranges and locations, on one
\* open document, for every answer of the analyzer
OneDocumentOpen(texts) ==
    \E t \in texts :
        openDocs = [u \in Uris |-> IF u = "file:///a.blade.php"
                                   THEN [version |-> 1, text |-> t] ELSE Closed]

\* spans inside the shortest sub-document, with `length`, `start` or both
\* missing as well
ShortestLen == Min({Len(t) : t \in HostTexts})

Spans ==
    UNION {{[start |-> a, length |-> l] : l \in 0..(ShortestLen - a)} : a \in 0..ShortestLen}

TextSpans ==
    Spans
        \cup {[start |-> a] : a \in 0..ShortestLen}
        \cup {[length |-> 1], [nothing |-> TRUE]}

\* the files the analyzer knows: the synthetic one and a static library
AnalyzerFiles == {FILE_NAME, "jquery"}

Entries == [fileName : AnalyzerFiles, textSpan : TextSpans]

FewEntries == [fileName : AnalyzerFiles,
               textSpan : {[start |-> 0, length |-> 1], [start |-> 1, length |-> 3]}]

RECURSIVE ListsUpTo(_, _)
ListsUpTo(S, n) ==
    IF n = 0 THEN {<<>>}
    ELSE LET shorter == ListsUpTo(S, n - 1)
         IN shorter \cup {Append(l, x) : l \in shorter, x \in S}

LocAnswers ==
    {NoAnswer} \cup {Answer(l) : l \in ListsUpTo(FewEntries, MaxEntries)}
               \cup {Answer(<<e>>) : e \in Entries}

InitLoc ==
    /\ LibIdle /\ FmtIdle /\ ModeFresh /\ PeekIdle
    /\ OneDocumentOpen(HostTexts)
    /\ tsAnswer \in LocAnswers

NextLoc ==
    \E u \in Uris, position \in {Origin, Position(1, 0)} :
        \/ doValidation(HostDocument(u), tsAnswer)
        \/ doHover(HostDocument(u), position, tsAnswer)
        \/ findDocumentHighlight(HostDocument(u), position, tsAnswer)
        \/ findDefinition(HostDocument(u), position, tsAnswer)
        \/ findReferences(HostDocument(u), position, tsAnswer)

SpecLoc == InitLoc /\ [][NextLoc]_vars

\* ---- findDocumentSymbols on one open document, for every navigation tree
ItemNames == {"A", "Alocal "}
ItemKinds == {"script", "class", "local class"}
ItemStarts == {0, 2}

Item(text, kind, start, childItems) ==
    [text |-> text, kind |-> kind, spans |-> <<[start |-> start, length |-> 1]>>,
     childItems |-> childItems]

Leaves == {Item(n, k, st, <<>>) : n \in ItemNames, k \in ItemKinds, st \in ItemStarts}

\* items with at most one child, a leaf
FlatItems == Leaves \cup {[l EXCEPT !.childItems = <<c>>] : l \in Leaves, c \in Leaves}

\* deeper trees: a class in a script in a class, a script in a script
DeepItems ==
    { Item("A", "class", 0, <<Item("A", "script", 0, <<Item("A", "class", 2, <<>>)>>)>>),
      Item("A", "script", 0, <<Item("A", "script", 0, <<Item("A", "class", 2, <<>>)>>)>>) }

SymAnswers ==
    {NoAnswer} \cup {Answer(l) : l \in ListsUpTo(FlatItems, MaxItems)}
               \cup {Answer(<<i>>) : i \in DeepItems}

InitSym ==
    /\ LibIdle /\ FmtIdle /\ ModeFresh /\ PeekIdle
    /\ OneDocumentOpen({<<"S", "a", "\n", "b", "E">>})
    /\ tsAnswer \in SymAnswers

NextSym == \E u \in Uris : nReq = 0 /\ findDocumentSymbols(HostDocument(u), tsAnswer)

SpecSym == InitSym /\ [][NextSym]_vars

\* ---- peekFileDefinition, on every document, position and option enumerated
MaxFolders == 2     \* longest enumerated list of workspace folders

\* document uris and workspace folder uris, shortened to a path: two sibling
\* folders, one's name starting with the other's, and a document outside both
PeekUris == { <<"/", "w", "/", "d">>, <<"/", "w", "2", "/", "d">>, <<"/", "u", "/", "d">> }
FolderUris == { <<"/", "w">>, <<"/", "w", "2">> }

\* settings.blade.views.path
ViewsPaths == { <<"v">>, <<"r", "/", "v">> }

PeekTexts ==
    {
      \* "@include('a.b')": a directive naming a nested template
      <<"@", "i", "n", "c", "l", "u", "d", "e", "(", "'", "a", ".", "b",
        "'", ")">>,
      \* 'x @extends("c") @include(\'d\')': two directives on one line
      <<"x", " ", "@", "e", "x", "t", "e", "n", "d", "s", "(", "\"", "c",
        "\"", ")", " ", "@", "i", "n", "c", "l", "u", "d", "e", "(", "'",
        "d", "'", ")">>,
      \* "@Include('a')": the directive name in another case
      <<"@", "I", "n", "c", "l", "u", "d", "e", "(", "'", "a", "'", ")">>,
      \* "@include($x,'y')": a first argument that is not quoted
      <<"@", "i", "n", "c", "l", "u", "d", "e", "(", "$", "x", ",", "'",
        "y", "'", ")">>,
      \* "@include('')": an empty template name
      <<"@", "i", "n", "c", "l", "u", "d", "e", "(", "'", "'", ")">>,
      \* '@include(a': no quote: no match
      <<"@", "i", "n", "c", "l", "u", "d", "e", "(", "a">>,
      \* "p\n @extends('l.m')\r\n": the directive on the second of two lines
      <<"p", "\n", " ", "@", "e", "x", "t", "e", "n", "d", "s", "(", "'",
        "l", ".", "m", "'", ")", "\r", "\n">>,
      \* '  ': a blank line
      <<" ", " ">>,
      \* "@includeIf('a')": another directive: no match
      <<"@", "i", "n", "c", "l", "u", "d", "e", "I", "f", "(", "'", "a",
        "'", ")">>,
      \* "@include(@include('a')": a directive inside a directive's argument
      <<"@", "i", "n", "c", "l", "u", "d", "e", "(", "@", "i", "n", "c",
        "l", "u", "d", "e", "(", "'", "a", "'", ")">>,
      \* '@include(\'a".b\')': a double quote before the closing single quote
      <<"@", "i", "n", "c", "l", "u", "d", "e", "(", "'", "a", "\"", ".",
        "b", "'", ")">>,
      \* '': an empty document
      <<>>
    }

WorkspaceFolders == {NoFolders} \cup {Folders(l) : l \in ListsUpTo(FolderUris, MaxFolders)}

PeekOptions ==
    [workspaceFolders : WorkspaceFolders,
     settings : [blade : [views : [path : ViewsPaths]]]]

\* positions on every line of a text and one line below, from column 0 to
\* one past the text's length
PositionsOf(text) ==
    {Position(l, c) : l \in 0..Len(getLineOffsets(text)), c \in 0..(Len(text) + 1)}

PeekRequests ==
    UNION {[document : {TextDocument(u, "blade", 1, t)}, position : PositionsOf(t),
            options : PeekOptions] : u \in PeekUris, t \in PeekTexts}

InitPeek ==
    /\ LibIdle /\ FmtIdle /\ ModeIdle
    /\ peekReq \in PeekRequests
    /\ peekLast = NoPeek

NextPeek == peekFileDefinition(peekReq.document, peekReq.position, peekReq.options)

SpecPeek == InitPeek /\ [][NextPeek]_vars

Spec == SpecMode

(***************************************************************************)
(* Claims about loadLibrary                                                *)
(***************************************************************************)
LogLinesFor(n) == {i \in DOMAIN log : log[i].name = n}

\* C3: for any sequence of loadLibrary calls, a name whose file cannot be read
\* yields "" and is logged exactly once, on the first call for that name; every
\* later call for a name touches the filesystem not at all and returns what the
\* first call for that name returned.
C3_MemoizedPerName ==
    /\ \A n \in LibNames : Cardinality(LogLinesFor(n)) <= 1
    /\ libLast.name # Undefined =>
          /\ libLast.logged => libLast.result = "" /\ libLast.first
          /\ ~libLast.first =>
                /\ libLast.fsOps = <<>>
                /\ libLast.result = firstResult[libLast.name]

\* The same statement for every name but "__proto__" (holds: kept as the
\* measure of how far the memoization does work).
C3_MemoizedPerOrdinaryName ==
    /\ \A n \in LibNames \ {"__proto__"} : Cardinality(LogLinesFor(n)) <= 1
    /\ (libLast.name # Undefined /\ libLast.name # "__proto__") =>
          /\ libLast.logged => libLast.result = "" /\ libLast.first
          /\ ~libLast.first =>
                /\ libLast.fsOps = <<>>
                /\ libLast.result = firstResult[libLast.name]

IsRead(o) == o[1] = "readFileSync"

\* C4: a first lookup of a name reads from exactly one path: the fixed jquery
\* definitions path for the alias "jquery" (whether or not an entry named
\* "jquery" exists), else the name itself when it exists as a path, else the
\* name joined onto the TypeScript lib folder.
C4_PathPriority ==
    [][(nCalls' # nCalls /\ libLast'.first) =>
          LET n == libLast'.name
              reads == SelectSeq(libLast'.fsOps, IsRead)
          IN /\ Len(reads) = 1
             /\ n = "jquery" => reads[1][2] = "/ext/server/lib/jquery.d.ts"
             /\ (n # "jquery" /\ fs[n] # "absent") => reads[1][2] = n
             /\ (n # "jquery" /\ fs[n] = "absent") =>
                   reads[1][2] \in {"/ext/server/node_modules/typescript/lib/" \o n,
                                    "/ext/server/node_modules/typescript/lib" \o n}
      ]_vars

\* the alias was looked up for the first time while an entry named "jquery"
\* existed, and the fixed path was read
C4_Witness ==
    /\ libLast.name = "jquery" /\ libLast.first
    /\ fs["jquery"] # "absent" /\ nFsChanges = 1
    /\ libLast.fsOps = << <<"readFileSync", JQUERY_PATH>> >>

(***************************************************************************)
(* Claims about format                                                     *)
(***************************************************************************)
\* the text the requested range selects, read off the document by offsets
SelectedText ==
    LET d == fmtReq.document
    IN SubSeq(d, offsetAt(d, fmtReq.range.start) + 1, offsetAt(d, fmtReq.range.end))

IsBlank(s) == \A i \in 1..Len(s) : IsWhiteSpace(s[i])

\* C7: format of the script mode and of the less mode returns null, without
\* running the formatter, when the range's text is empty or white space only;
\* otherwise it returns exactly one edit, whose range is the requested range.
C7_BlankIsNullElseOneEdit ==
    fmtLast # NoFormat =>
        IF IsBlank(SelectedText)
        THEN fmtLast.result = Null /\ ~fmtLast.formatterRan
        ELSE /\ fmtLast.result # Null
             /\ Len(fmtLast.result) = 1
             /\ fmtLast.result[1].range = fmtReq.range
             /\ fmtLast.formatterRan

\* the script mode was asked to format a range holding white space only
C7_Witness ==
    /\ fmtLast # NoFormat /\ fmtLast.mode = "javascript"
    /\ SelectedText # <<>> /\ IsBlank(SelectedText)
    /\ fmtLast.result = Null

\* the indent of the line a position is on: its leading blanks and tabs
LeadingIndentOfLine(document, line) ==
    LET from == getLineOffsets(document)[line + 1]
        stop == Min({i \in (from + 1)..(Len(document) + 1) :
                        i = Len(document) + 1 \/ document[i] \notin {" ", "\t"}})
    IN SubSeq(document, from + 1, stop - 1)

\* scanning a text backwards: its trailing blanks and tabs, an optional "\r"
\* before them, and the "\n" before that; empty when the text does not end so
TailIndent(text) ==
    LET p == Max({0} \cup {i \in 1..Len(text) : text[i] \notin {" ", "\t"}})
    IN IF p >= 1 /\ text[p] = "\n" THEN SubSeq(text, p, Len(text))
       ELSE IF p >= 2 /\ text[p] = "\r" /\ text[p - 1] = "\n"
            THEN SubSeq(text, p - 1, Len(text))
       ELSE <<>>

\* the returned text is "\n", then the formatter's lines each behind `indent`
\* (the whole right-trimmed, so that trailing blank lines are gone), then the
\* tail indent of the selected text
EveryLinePrefixedWith(indent) ==
    LET newText == fmtLast.result[1].newText
        tail == TailIndent(SelectedText)
        body == SubSeq(newText, 2, Len(newText) - Len(tail))
        got == split(body, "\n")
        formatted == split(fmtReq.formatted, "\n")
        n == Len(got)
    IN /\ Len(newText) >= 1 + Len(tail)
       /\ newText[1] = "\n"
       /\ SubSeq(newText, Len(newText) - Len(tail) + 1, Len(newText)) = tail
       /\ n <= Len(formatted)
       /\ \A i \in 1..(n - 1) : got[i] = indent \o formatted[i]
       /\ got[n] = trimEnd(indent \o formatted[n])
       /\ \A i \in (n + 1)..Len(formatted) : IsBlank(formatted[i])

Held(uri, version) ==
    /\ currentTextDocument # NoDocument
    /\ currentTextDocument.uri = uri
    /\ currentTextDocument.version = version

\* C1: over any sequence of analyzer-backed requests the synthetic file's
\* version counter never decreases; it changes only in a request whose
\* document's uri or version is not that of the held document (or when none is
\* held); a request for the held (uri, version) leaves it alone and reports the
\* version string the request before it reported.
C1_VersionBumpedOnlyOnChange ==
    [][/\ scriptFileVersion' >= scriptFileVersion
       /\ scriptFileVersion' # scriptFileVersion =>
            /\ nReq' = nReq + 1
            /\ ~Held(reqLast'.uri, reqLast'.version)
       /\ (nReq' = nReq + 1 /\ Held(reqLast'.uri, reqLast'.version)) =>
            /\ scriptFileVersion' = scriptFileVersion
            /\ reqLast'.scriptVersion = reqLast.scriptVersion
            /\ reqLast'.scriptVersion = String(scriptFileVersion)
      ]_vars

\* two requests were served, the second for the held document: one bump
C1_Witness ==
    /\ nReq = 2
    /\ scriptFileVersion = 1
    /\ reqLast.scriptVersion = "1"
    /\ ~reqLast.stale

\* C2: after onDocumentRemoved(document) the cache entry of the document is
\* gone, and the next request for a document with that uri obtains its
\* sub-document afresh (by a parse) instead of reusing the one held before.
C2_RemovedDocumentIsParsedAfresh ==
    /\ \A u \in removedSince : u \notin DOMAIN jsDocuments
    /\ (reqLast # NoRequest /\ reqLast.afterRemoval) => reqLast.parsed

\* What does hold after a removal: the entry is gone, and the next request
\* for the uri parses afresh unless the held document has the request's uri
\* and version.
C2_ParsedAfreshUnlessHeld ==
    /\ \A u \in removedSince : u \notin DOMAIN jsDocuments
    /\ (reqLast # NoRequest /\ reqLast.afterRemoval /\ reqLast.stale) => reqLast.parsed

(***************************************************************************)
(* Claims about locations and ranges                                       *)
(***************************************************************************)
IndicesOfSameFile(list) == {i \in 1..Len(list) : list[i].fileName = FILE_NAME}

\* the k-th smallest element of a set of numbers
Kth(S, k) == CHOOSE x \in S : Cardinality({y \in S : y < x}) = k - 1

\* the range denotes the span's offsets in the text
RangeIsSpan(text, range, span) ==
    IF "start" \notin DOMAIN span
    THEN range = Range(Position(0, 0), Position(0, 0))
    ELSE /\ offsetAt(text, range.start) = span.start
         /\ offsetAt(text, range.end) =
               span.start + (IF "length" \in DOMAIN span THEN span.length ELSE 0)

\* C8: findDefinition and findReferences return only the analyzer's results
\* in the synthetic file, each once, in the analyzer's order, each carrying
\* the request document's uri; results in another file are dropped. With no
\* answer findDefinition returns null and findReferences an empty list.
C8_OnlySameFileLocations ==
    (reqLast # NoRequest /\ reqLast.op \in {"findDefinition", "findReferences"}) =>
        IF ~tsAnswer.defined
        THEN IF reqLast.op = "findDefinition"
             THEN reqLast.result.isNull
             ELSE ~reqLast.result.isNull /\ reqLast.result.value = <<>>
        ELSE LET kept == IndicesOfSameFile(tsAnswer.list)
                 got == reqLast.result.value
             IN /\ ~reqLast.result.isNull
                /\ Len(got) = Cardinality(kept)
                /\ \A k \in 1..Len(got) :
                      /\ got[k].uri = reqLast.uri
                      /\ RangeIsSpan(reqLast.snapshot, got[k].range,
                                     tsAnswer.list[Kth(kept, k)].textSpan)

\* findDefinition got a library result and then one in the synthetic file,
\* and returned the second alone
C8_Witness ==
    /\ reqLast # NoRequest /\ reqLast.op = "findDefinition"
    /\ tsAnswer.defined /\ Len(tsAnswer.list) = 2
    /\ tsAnswer.list[1].fileName = "jquery"
    /\ tsAnswer.list[2].fileName = FILE_NAME
    /\ Len(reqLast.result.value) = 1

NotBefore(a, b) == a.line > b.line \/ (a.line = b.line /\ a.character >= b.character)

\* the line and character of an offset, counted on the text: the number of
\* line breaks completed before it, and the distance from the last of them
PositionOfOffset(text, o) ==
    LET Break(i) == \/ text[i] = "\n"
                    \/ text[i] = "\r" /\ (i = Len(text) \/ text[i + 1] # "\n")
        breaks == {i \in 1..o : Break(i)}
    IN Position(Cardinality(breaks), o - Max(breaks \cup {0}))

\* C9: convertRange maps a span (start, length) to the range from the position
\* of offset start to the position of offset start + length, so that it covers
\* the offsets [start, start + length) and does not end before it starts; a
\* span without start becomes the empty range at offset 0, and a span with a
\* start but no length the empty range at start.
C9_ConvertRangeCoversSpan ==
    (reqLast # NoRequest /\ reqLast.op \in {"doValidation", "findDocumentHighlight"}) =>
        \A i \in 1..Len(reqLast.result.value) :
            LET span == tsAnswer.list[i].textSpan
                r == reqLast.result.value[i].range
                text == reqLast.snapshot
            IN /\ NotBefore(r.end, r.start)
               /\ "start" \notin DOMAIN span =>
                     r = Range(Position(0, 0), Position(0, 0))
               /\ ("start" \in DOMAIN span /\ "length" \notin DOMAIN span) =>
                     /\ r.start = PositionOfOffset(text, span.start)
                     /\ r.end = r.start
               /\ ("start" \in DOMAIN span /\ "length" \in DOMAIN span) =>
                     /\ r.start = PositionOfOffset(text, span.start)
                     /\ r.end = PositionOfOffset(text, span.start + span.length)
                     /\ offsetAt(text, r.start) = span.start
                     /\ offsetAt(text, r.end) = span.start + span.length

\* a diagnostic spanning a line break was converted
C9_Witness ==
    /\ reqLast # NoRequest /\ reqLast.op = "doValidation"
    /\ reqLast.snapshot = <<" ", "a", "\n", "b", " ">>
    /\ tsAnswer.defined /\ Len(tsAnswer.list) = 1
    /\ tsAnswer.list[1].textSpan = [start |-> 1, length |-> 3]
    /\ reqLast.result.value[1].range = Range(Position(0, 1), Position(1, 1))

(***************************************************************************)
(* Claims about findDocumentSymbols                                        *)
(***************************************************************************)
RECURSIVE NodeAt(_, _)
NodeAt(items, path) ==
    IF Len(path) = 1 THEN items[path[1]]
    ELSE NodeAt(items[path[1]].childItems, Tail(path))

RECURSIVE PathsOf(_)
PathsOf(items) ==
    UNION {{<<i>>} \cup {<<i>> \o q : q \in PathsOf(items[i].childItems)} :
              i \in 1..Len(items)}

Triple(item) == <<item.text, item.kind, item.spans[1].start>>

ParentPath(path) == SubSeq(path, 1, Len(path) - 1)

\* C5: findDocumentSymbols deduplicates by (name, kind, startOffset): no two
\* returned symbols come from items with the same triple, and every triple of
\* a non-"script" item of the tree has its symbol.
C5_DeduplicatedByTriple ==
    (reqLast # NoRequest /\ reqLast.op = "findDocumentSymbols" /\ tsAnswer.defined) =>
        LET items == tsAnswer.list
            from == reqLast.result.from
        IN /\ \A i, j \in 1..Len(from) :
                 i # j => Triple(NodeAt(items, from[i])) # Triple(NodeAt(items, from[j]))
           /\ \A p \in PathsOf(items) :
                 NodeAt(items, p).kind # "script" =>
                    \E i \in 1..Len(from) :
                        Triple(NodeAt(items, from[i])) = Triple(NodeAt(items, p))

\* two triples collide when their concatenations are the same text
Collide(items) ==
    \E p, q \in PathsOf(items) :
        LET a == NodeAt(items, p)
            b == NodeAt(items, q)
        IN /\ Triple(a) # Triple(b)
           /\ a.text \o a.kind = b.text \o b.kind
           /\ a.spans[1].start = b.spans[1].start

\* The deduplication is by triple as long as no two triples of the tree
\* concatenate to the same text.
C5_DeduplicatedByTripleUnlessCollision ==
    (tsAnswer.defined /\ ~Collide(tsAnswer.list)) => C5_DeduplicatedByTriple

\* C10: every returned symbol of an item that is a child of a non-"script"
\* item carries that item's name as its containerName, also when the parent
\* was skipped as a duplicate; a symbol all of whose ancestors are "script"
\* items carries none.
C10_ContainerIsParentName ==
    (reqLast # NoRequest /\ reqLast.op = "findDocumentSymbols" /\ tsAnswer.defined) =>
        LET items == tsAnswer.list
            from == reqLast.result.from
        IN \A i \in 1..Len(from) :
              LET p == from[i]
                  symbol == reqLast.result.value[i]
                  ancestors == {NodeAt(items, SubSeq(p, 1, n)) : n \in 1..(Len(p) - 1)}
              IN /\ (Len(p) > 1 /\ NodeAt(items, ParentPath(p)).kind # "script") =>
                       symbol.containerName = NodeAt(items, ParentPath(p)).text
                 /\ (\A a \in ancestors : a.kind = "script") =>
                       symbol.containerName = Undefined

\* The same, for the symbols whose parent item was not skipped as a duplicate
\* (its own symbol is among the returned ones).
C10_ContainerIsParentNameUnlessParentSkipped ==
    (reqLast # NoRequest /\ reqLast.op = "findDocumentSymbols" /\ tsAnswer.defined) =>
        LET items == tsAnswer.list
            from == reqLast.result.from
        IN \A i \in 1..Len(from) :
              LET p == from[i]
                  symbol == reqLast.result.value[i]
                  ancestors == {NodeAt(items, SubSeq(p, 1, n)) : n \in 1..(Len(p) - 1)}
              IN /\ (/\ Len(p) > 1
                     /\ NodeAt(items, ParentPath(p)).kind # "script"
                     /\ \E j \in 1..Len(from) : from[j] = ParentPath(p)) =>
                       symbol.containerName = NodeAt(items, ParentPath(p)).text
                 /\ (\A a \in ancestors : a.kind = "script") =>
                       symbol.containerName = Undefined


(***************************************************************************)
(* Claims about peekFileDefinition                                         *)
(***************************************************************************)
\* a folder owns a document when the document's uri is the folder's uri or
\* lies below it
Owns(folder, uri) ==
    \/ uri = folder
    \/ /\ Len(uri) > Len(folder)
       /\ SubSeq(uri, 1, Len(folder) + 1) = folder \o <<"/">>

FoldersGiven ==
    IF peekLast.options.workspaceFolders.defined
    THEN {peekLast.options.workspaceFolders.list[k] :
             k \in 1..Len(peekLast.options.workspaceFolders.list)}
    ELSE {}

\* the indices of the directive matches the cursor is strictly inside
MatchesAroundCursor ==
    {k \in 1..Len(peekLast.includeParts) :
        /\ peekLast.includeParts[k].start < peekLast.position.character
        /\ peekLast.position.character < peekLast.includeParts[k].end}

\* the uri the claim describes for a views base folder and a template name
TemplateUri(folder, template) ==
    folder \o <<"/">> \o peekLast.options.settings.blade.views.path \o <<"/">>
        \o [i \in 1..Len(template) |-> IF template[i] = "." THEN "/" ELSE template[i]]
        \o BladeSuffix

\* the result the claim describes, the views base starting with one of `bases`
PeekResultIs(bases) ==
    /\ Len(peekLast.result) <= 1
    /\ MatchesAroundCursor = {} => peekLast.result = <<>>
    /\ MatchesAroundCursor # {} =>
          /\ Len(peekLast.result) = 1
          /\ peekLast.result[1].range = ZeroRange
          /\ \E base \in bases :
                peekLast.result[1].uri =
                    TemplateUri(base,
                                peekLast.includeParts[Min(MatchesAroundCursor)].template)

\* C11: peekFileDefinition returns a list, empty unless position.character is
\* strictly between the start and the end of a directive match on the
\* cursor's line; then it holds one location with the zero range whose uri is
\* the uri of the workspace folder owning the document (empty when none owns
\* it), "/", the views path, "/", the template name with "/" for each ".",
\* and ".blade.php".
C11_OneLocationUnderOwningFolder ==
    peekLast # NoPeek =>
        LET owners == {f \in FoldersGiven : Owns(f, peekLast.document.uri)}
        IN PeekResultIs(IF owners = {} THEN {<<>>} ELSE owners)

\* What holds: the same with, for the folder, the first one listed whose uri
\* the document's uri starts with, whether or not the document is below it.
C11_OneLocationUnderFirstPrefixFolder ==
    peekLast # NoPeek =>
        LET list == IF peekLast.options.workspaceFolders.defined
                    THEN peekLast.options.workspaceFolders.list ELSE <<>>
            uri == peekLast.document.uri
            pre == {k \in 1..Len(list) :
                       Len(list[k]) <= Len(uri) /\ SubSeq(uri, 1, Len(list[k])) = list[k]}
        IN PeekResultIs(IF pre = {} THEN {<<>>} ELSE {list[Min(pre)]})

\* a location is returned for the second directive of a line
C11_Reached ==
    /\ peekLast # NoPeek
    /\ Len(peekLast.includeParts) = 2
    /\ MatchesAroundCursor = {2}
    /\ Len(peekLast.result) = 1


(***************************************************************************)
(* Claims about what the analyzer is shown                                 *)
(***************************************************************************)
\* the script sub-document of the document the last request was made for
SubDocumentOfRequest ==
    getEmbeddedDocument(TextDocument(reqLast.uri, "blade", reqLast.version, reqLast.text))

\* no two queries were served different texts under one version string
NewContentNewVersion ==
    \A p \in shown, q \in shown :
        p.snapshot # q.snapshot => p.scriptVersion # q.scriptVersion

\* C12: at every analyzer query the held document is defined and is the
\* script sub-document of the request's document, and two queries that were
\* served different texts of the synthetic file were served different
\* version strings for it.
C12_AnalyzerSeesTheRequestsDocument ==
    /\ reqLast # NoRequest =>
          /\ reqLast.held # NoDocument
          /\ reqLast.held = SubDocumentOfRequest
    /\ NewContentNewVersion

\* What holds: the held document is defined at every query, it is the
\* request's sub-document whenever the request replaced the held document,
\* and new content never comes under an old version string.
C12_CoherentWhenReplaced ==
    /\ reqLast # NoRequest =>
          /\ reqLast.held # NoDocument
          /\ reqLast.stale => reqLast.held = SubDocumentOfRequest
    /\ NewContentNewVersion

\* two queries were served two texts, under two version strings
C12_Reached ==
    /\ Cardinality({p.snapshot : p \in shown}) = 2
    /\ Cardinality({p.scriptVersion : p \in shown}) = 2

====
